---- MODULE Spec2Model ----
(***************************************************************************)
(* Model of the AI-driven firewall: the policy engine                      *)
(* (services/policy_engine.py), the in-memory stores (services/storage.py) *)
(* and the request handlers (main.py).                                     *)
(*                                                                         *)
(* Representation of Python values:                                        *)
(*   - a str that the code inspects character by character (a condition    *)
(*     literal, an address, the text of a value) is a sequence of          *)
(*     one-character strings, <<"4","4","3">> for "443";                   *)
(*   - a field path is the sequence of its dot-separated segments:         *)
(*     str.split(".") is a bijection between strings and non-empty         *)
(*     sequences of dot-free strings, so "protocol.value" is               *)
(*     <<"protocol","value">> and "" is <<"">>;                            *)
(*   - a runtime value is a record tagged with its Python type;            *)
(*   - a call either returns a value or raises: Ret(v) / Raise(e).         *)
(***************************************************************************)
EXTENDS Integers, Sequences, FiniteSets, TLC

VARIABLES
    policies,      \* PolicyStore._policies: the OrderedDict, as the sequence of its values in key order
    connections,   \* ConnectionStore._connections: connection_id -> ConnectionDetail
    issued,        \* number of connection ids uuid4 has produced so far
    response,      \* what the last handler call produced (its return value or its error)
    call,          \* the last call of the engine: its arguments and its result
    ledger         \* history of the policy store's use: ids in order of insertion, last policy added per id

vars == <<policies, connections, issued, response, call, ledger>>

----------------------------------------------------------------------------
(* Text: str(), int() and the ordering of str.                             *)

Digits == <<"0", "1", "2", "3", "4", "5", "6", "7", "8", "9">>

IsDigit(ch) == \E i \in 1..10 : Digits[i] = ch

DigitVal(ch) == (CHOOSE i \in 1..10 : Digits[i] = ch) - 1

\* ord(ch) for the characters the model uses (Unicode code points).
Ord(ch) ==
    CASE ch = " " -> 32
      [] ch = "+" -> 43
      [] ch = "-" -> 45
      [] ch = "." -> 46
      [] IsDigit(ch) -> 48 + DigitVal(ch)
      [] ch = ":" -> 58
      [] ch = "C" -> 67
      [] ch = "D" -> 68
      [] ch = "P" -> 80
      [] ch = "T" -> 84
      [] ch = "U" -> 85
      [] ch = "_" -> 95
      [] ch = "a" -> 97
      [] ch = "b" -> 98
      [] ch = "x" -> 120

\* str < str: lexicographic by code point, a proper prefix is smaller.
RECURSIVE StrLess(_, _)
StrLess(a, b) ==
    IF b = <<>> THEN FALSE
    ELSE IF a = <<>> THEN TRUE
    ELSE IF Ord(Head(a)) # Ord(Head(b)) THEN Ord(Head(a)) < Ord(Head(b))
    ELSE StrLess(Tail(a), Tail(b))

\* The decimal digits of a natural number.
RECURSIVE Decimal(_)
Decimal(n) ==
    IF n < 10 THEN <<Digits[n + 1]>>
    ELSE Decimal(n \div 10) \o <<Digits[(n % 10) + 1]>>

\* str(n) of an int.
IntStr(n) == IF n < 0 THEN <<"-">> \o Decimal(-n) ELSE Decimal(n)

\* n as at least w digits, zero-padded on the left ("%0wd").
RECURSIVE Pad(_, _)
Pad(n, w) ==
    LET d == Decimal(n)
    IN  IF Len(d) >= w THEN d ELSE <<"0">> \o Pad(n, w - 1)

\* str.strip() of whitespace.
RECURSIVE LStrip(_)
LStrip(s) == IF s # <<>> /\ Head(s) = " " THEN LStrip(Tail(s)) ELSE s

RECURSIVE RStrip(_)
RStrip(s) ==
    IF s # <<>> /\ s[Len(s)] = " " THEN RStrip(SubSeq(s, 1, Len(s) - 1)) ELSE s

\* The digits of an int literal: digits, with single underscores between them.
RECURSIVE DigitsOk(_, _)
DigitsOk(s, afterDigit) ==
    IF s = <<>> THEN afterDigit
    ELSE IF IsDigit(Head(s)) THEN DigitsOk(Tail(s), TRUE)
    ELSE IF Head(s) = "_" THEN afterDigit /\ DigitsOk(Tail(s), FALSE)
    ELSE FALSE

RECURSIVE DigitsValue(_, _)
DigitsValue(s, acc) ==
    IF s = <<>> THEN acc
    ELSE IF Head(s) = "_" THEN DigitsValue(Tail(s), acc)
    ELSE DigitsValue(Tail(s), 10 * acc + DigitVal(Head(s)))

\* int(s) of a str: surrounding whitespace, an optional sign, base-10 digits.
\* [ok |-> FALSE] is ValueError.
ParseInt(s) ==
    LET t    == RStrip(LStrip(s))
        sign == IF t # <<>> /\ Head(t) \in {"+", "-"} THEN Head(t) ELSE ""
        body == IF sign = "" THEN t ELSE Tail(t)
    IN  IF DigitsOk(body, FALSE)
        THEN [ok |-> TRUE,
              n  |-> IF sign = "-" THEN -DigitsValue(body, 0) ELSE DigitsValue(body, 0)]
        ELSE [ok |-> FALSE, n |-> 0]

----------------------------------------------------------------------------
(* Runtime values, tagged with their Python type.                          *)

StrV(s) == [tag |-> "str", v |-> s]
IntV(n) == [tag |-> "int", v |-> n]
\* A member of the Protocol enum, by name.
EnumV(m) == [tag |-> "enum", v |-> m]
DatetimeV(d) == [tag |-> "datetime", v |-> d]
\* A ConnectionRequest.
ModelV(c) == [tag |-> "model", v |-> c]
\* A bound method of an object: resolved by getattr, opaque otherwise.
MethodV(name) == [tag |-> "method", v |-> name]
\* A Policy object.
PolicyV(p) == [tag |-> "Policy", v |-> p]
NoneV == [tag |-> "None", v |-> 0]

\* A call returns a value or raises an exception.
Ret(v) == [exc |-> "", val |-> v]
Raise(e) == [exc |-> e, val |-> NoneV]

\* The call returned the boolean b.
Returned(r, b) == r.exc = "" /\ r.val = b

\* Protocol(str, Enum): the member's value, which for both members is its name.
ProtocolValue(m) ==
    CASE m = "TCP" -> <<"T", "C", "P">>
      [] m = "UDP" -> <<"U", "D", "P">>

\* str(datetime): isoformat(sep=" ") of a naive datetime, microseconds only when non-zero.
DatetimeStr(d) ==
    Pad(d.year, 4) \o <<"-">> \o Pad(d.month, 2) \o <<"-">> \o Pad(d.day, 2)
    \o <<" ">> \o Pad(d.hour, 2) \o <<":">> \o Pad(d.minute, 2) \o <<":">> \o Pad(d.second, 2)
    \o (IF d.microsecond = 0 THEN <<>> ELSE <<".">> \o Pad(d.microsecond, 6))

\* str(value), as the == and != operators of a condition take it.  The text of
\* a bound method ("<built-in method ... at 0x...>") is no text a literal of
\* the model spells: one opaque character stands for it.
PyStr(x) ==
    CASE x.tag = "str" -> x.v
      [] x.tag = "int" -> IntStr(x.v)
      [] x.tag = "datetime" -> DatetimeStr(x.v)
      [] x.tag = "method" -> <<"<method>">>
      [] x.tag = "None" -> <<"N", "o", "n", "e">>

----------------------------------------------------------------------------
(* services/policy_engine.py                                               *)

\* getattr(value, attr): the attributes the model knows; any other name
\* raises AttributeError.
GetAttr(x, attr) ==
    CASE x.tag = "model" /\ attr \in {"source_ip", "destination_ip"} -> Ret(StrV(x.v[attr]))
      [] x.tag = "model" /\ attr = "destination_port" -> Ret(IntV(x.v[attr]))
      [] x.tag = "model" /\ attr = "protocol" -> Ret(EnumV(x.v[attr]))
      [] x.tag = "model" /\ attr = "timestamp" -> Ret(DatetimeV(x.v[attr]))
      [] x.tag = "enum" /\ attr \in {"value", "name"} -> Ret(StrV(ProtocolValue(x.v)))
      [] x.tag \in {"str", "enum"} /\ attr = "upper" -> Ret(MethodV(attr))
      [] x.tag = "int" /\ attr = "real" -> Ret(x)
      [] x.tag = "int" /\ attr = "bit_length" -> Ret(MethodV(attr))
      [] x.tag = "datetime" /\ attr \in {"year", "month", "day", "hour", "minute", "second"}
            -> Ret(IntV(x.v[attr]))
      [] OTHER -> Raise("AttributeError")

\* hasattr(value, "value")
HasValueAttr(x) == GetAttr(x, "value").exc = ""

\* The loop `for attr in field.split("."): value = getattr(value, attr)`.
RECURSIVE Resolve(_, _)
Resolve(x, segs) ==
    IF segs = <<>> THEN Ret(x)
    ELSE LET r == GetAttr(x, Head(segs))
         IN  IF r.exc # "" THEN r ELSE Resolve(r.val, Tail(segs))

\* PolicyEngine._get_field_value
GetFieldValue(connection, field) ==
    LET r == Resolve(ModelV(connection), field)
    IN  IF r.exc = "AttributeError" THEN NoneV
        ELSE IF HasValueAttr(r.val) /\ Len(field) = 1
             THEN GetAttr(r.val, "value").val
             ELSE r.val

\* actual < expected, as Python's rich comparison decides it: int with int,
\* str with str; any other pairing is a TypeError.
PyLess(a, b) ==
    CASE a.tag = "int" /\ b.tag = "int" -> Ret(a.v < b.v)
      [] a.tag = "str" /\ b.tag = "str" -> Ret(StrLess(a.v, b.v))
      [] OTHER -> Raise("TypeError")

\* not r, of a comparison that returned.
Negated(r) == IF r.exc # "" THEN r ELSE Ret(~r.val)

\* ApplyOperator with != comparing the values themselves (actual != expected)
\* instead of their texts: values of different types are then never equal.
ApplyOperatorNativeNe(operator, actual, expected) ==
    CASE operator = "==" -> Ret(PyStr(actual) = PyStr(expected))
      [] operator = "!=" -> Ret(actual.tag # expected.tag \/ PyStr(actual) # PyStr(expected))
      [] operator = ">" -> PyLess(expected, actual)
      [] operator = "<" -> PyLess(actual, expected)
      [] operator = ">=" -> Negated(PyLess(actual, expected))
      [] operator = "<=" -> Negated(PyLess(expected, actual))

\* ApplyOperator with the ordering operators comparing the texts of the two
\* values, as == and != do.
ApplyOperatorByText(operator, actual, expected) ==
    CASE operator = "==" -> Ret(PyStr(actual) = PyStr(expected))
      [] operator = "!=" -> Ret(PyStr(actual) # PyStr(expected))
      [] operator = ">" -> Ret(StrLess(PyStr(expected), PyStr(actual)))
      [] operator = "<" -> Ret(StrLess(PyStr(actual), PyStr(expected)))
      [] operator = ">=" -> Ret(~StrLess(PyStr(actual), PyStr(expected)))
      [] operator = "<=" -> Ret(~StrLess(PyStr(expected), PyStr(actual)))

\* The match statement on condition.operator.
ApplyOperator(operator, actual, expected) ==
    CASE operator = "==" -> Ret(PyStr(actual) = PyStr(expected))
      [] operator = "!=" -> Ret(PyStr(actual) # PyStr(expected))
      [] operator = ">" -> PyLess(expected, actual)
      [] operator = "<" -> PyLess(actual, expected)
      [] operator = ">=" -> Negated(PyLess(actual, expected))
      [] operator = "<=" -> Negated(PyLess(expected, actual))

\* EvaluateCondition without the early returns: a missing value and an
\* unparsable port literal go on to the operator, the literal as it is.
EvaluateConditionNoEarlyReturn(connection, condition) ==
    LET actual_value == GetFieldValue(connection, condition.field)
        parsed       == ParseInt(condition.value)
    IN  IF condition.field = <<"destination_port">> /\ parsed.ok
        THEN ApplyOperator(condition.operator, actual_value, IntV(parsed.n))
        ELSE ApplyOperator(condition.operator, actual_value, StrV(condition.value))

\* PolicyEngine._evaluate_condition
EvaluateCondition(connection, condition) ==
    LET actual_value == GetFieldValue(connection, condition.field)
        parsed       == ParseInt(condition.value)
    IN  IF actual_value.tag = "None" THEN Ret(FALSE)
        ELSE IF condition.field = <<"destination_port">>
        THEN IF parsed.ok
             THEN ApplyOperator(condition.operator, actual_value, IntV(parsed.n))
             ELSE Ret(FALSE)
        ELSE ApplyOperator(condition.operator, actual_value, StrV(condition.value))

\* MatchesPolicy with any() in place of all().
RECURSIVE AnyCondition(_, _)
AnyCondition(connection, conditions) ==
    IF conditions = <<>> THEN Ret(FALSE)
    ELSE LET r == EvaluateCondition(connection, Head(conditions))
         IN  IF r.exc # "" THEN r
             ELSE IF r.val THEN Ret(TRUE)
             ELSE AnyCondition(connection, Tail(conditions))

\* all(...) over the generator of condition results: it stops at the first
\* False, and an exception raised by a condition it reaches propagates.
RECURSIVE AllConditions(_, _)
AllConditions(connection, conditions) ==
    IF conditions = <<>> THEN Ret(TRUE)
    ELSE LET r == EvaluateCondition(connection, Head(conditions))
         IN  IF r.exc # "" THEN r
             ELSE IF ~r.val THEN Ret(FALSE)
             ELSE AllConditions(connection, Tail(conditions))

MatchesPolicyAny(connection, policy) == AnyCondition(connection, policy.conditions)

\* PolicyEngine._matches_policy
MatchesPolicy(connection, policy) == AllConditions(connection, policy.conditions)

\* The loop of evaluate over the list get_all() returned: the first policy
\* that matches, None at the end of the list.
RECURSIVE FirstMatch(_, _)
FirstMatch(connection, all) ==
    IF all = <<>> THEN Ret(NoneV)
    ELSE LET m == MatchesPolicy(connection, Head(all))
         IN  IF m.exc # "" THEN m
             ELSE IF m.val THEN Ret(PolicyV(Head(all)))
             ELSE FirstMatch(connection, Tail(all))

----------------------------------------------------------------------------
(* services/storage.py                                                     *)

\* Position of the key in the OrderedDict, 0 when absent.
IndexOf(store, policy_id) ==
    IF \E i \in 1..Len(store) : store[i].policy_id = policy_id
    THEN CHOOSE i \in 1..Len(store) : store[i].policy_id = policy_id
    ELSE 0

Remove(seq, i) == SubSeq(seq, 1, i - 1) \o SubSeq(seq, i + 1, Len(seq))

\* PolicyStore.add with the updated key moved to the end of the dict.
StoreAddMoveToEnd(store, policy) ==
    LET i == IndexOf(store, policy.policy_id)
    IN  IF i = 0 THEN Append(store, policy) ELSE Append(Remove(store, i), policy)

\* PolicyStore.add: `self._policies[policy.policy_id] = policy`.  Assigning to
\* a key of an OrderedDict keeps the key's position, a new key goes last.
StoreAdd(store, policy) ==
    LET i == IndexOf(store, policy.policy_id)
    IN  IF i = 0 THEN Append(store, policy) ELSE [store EXCEPT ![i] = policy]

\* PolicyStore.get
StoreGet(store, policy_id) ==
    LET i == IndexOf(store, policy_id)
    IN  IF i = 0 THEN NoneV ELSE PolicyV(store[i])

\* PolicyStore.get_all: list(self._policies.values())
StoreGetAll(store) == store

\* StoreDelete that reports True whether or not the key was there.
StoreDeleteAlwaysTrue(store, policy_id) ==
    LET i == IndexOf(store, policy_id)
    IN  IF i # 0 THEN [store |-> Remove(store, i), deleted |-> TRUE]
        ELSE [store |-> store, deleted |-> TRUE]

\* PolicyStore.delete: the dict afterwards and the value returned.
StoreDelete(store, policy_id) ==
    LET i == IndexOf(store, policy_id)
    IN  IF i # 0 THEN [store |-> Remove(store, i), deleted |-> TRUE]
        ELSE [store |-> store, deleted |-> FALSE]

\* PolicyStore.clear
StoreClear(store) == <<>>

\* PolicyEngine.evaluate: the loop over policy_store.get_all().
Evaluate(connection, store) == FirstMatch(connection, StoreGetAll(store))

\* ConnectionStore.add
ConnectionAdd(store, detail) ==
    [id \in DOMAIN store \cup {detail.connection_id} |->
        IF id = detail.connection_id THEN detail ELSE store[id]]

\* A ConnectionDetail object.
DetailV(d) == [tag |-> "ConnectionDetail", v |-> d]

\* ConnectionStore.get: self._connections.get(connection_id)
ConnectionGet(store, connection_id) ==
    IF connection_id \in DOMAIN store THEN DetailV(store[connection_id]) ELSE NoneV

----------------------------------------------------------------------------
(* main.py                                                                 *)

\* Anomaly scores are counted in thousandths: 804 is 0.804.
\* The escalation threshold 0.8.
Threshold == 800

\* The thousandths ending in 5 that round(x, 2) takes up: the double nearest
\* to such a score lies just above or just below the tie (0.805 is
\* 0.80500000000000004..., 0.815 is 0.81499999999999994...), and the four the
\* double holds exactly (0.125, 0.375, 0.625, 0.875) go to the even digit.
HalfRoundsUp ==
    {5, 25, 35, 55, 65, 85, 95, 115, 135, 165, 195, 225, 255, 265, 275, 315, 325,
     335, 375, 385, 395, 405, 445, 455, 465, 505, 515, 525, 535, 545, 555, 635,
     645, 655, 665, 675, 685, 755, 765, 775, 785, 795, 805, 875, 885, 895, 905,
     915, 925, 935}

\* round(anomaly_score, 2), in thousandths.
Round2(score) ==
    LET down == (score \div 10) * 10
    IN  IF score % 10 < 5 THEN down
        ELSE IF score % 10 > 5 THEN down + 10
        ELSE IF score \in HalfRoundsUp THEN down + 10 ELSE down

\* The value of Optional[str] matched_policy that is no policy id: None.
NoPolicy == "<None>"

\* Decide with the escalation at score >= 0.8.
DecideAtThreshold(matched_policy, anomaly_score) ==
    LET action == IF matched_policy.tag = "Policy" THEN matched_policy.v.action ELSE "block"
        matched_policy_id ==
            IF matched_policy.tag = "Policy" THEN matched_policy.v.policy_id ELSE NoPolicy
    IN  [action |-> IF anomaly_score >= Threshold /\ action = "allow" THEN "alert" ELSE action,
         matched_policy_id |-> matched_policy_id]

\* Decide with no default: an unmatched connection is allowed.
DecideFailOpen(matched_policy, anomaly_score) ==
    LET action == IF matched_policy.tag = "Policy" THEN matched_policy.v.action ELSE "allow"
        matched_policy_id ==
            IF matched_policy.tag = "Policy" THEN matched_policy.v.policy_id ELSE NoPolicy
    IN  [action |-> IF anomaly_score > Threshold /\ action = "allow" THEN "alert" ELSE action,
         matched_policy_id |-> matched_policy_id]

\* submit_connection, from the result of evaluate to the final action: the
\* matched policy's action or block, and the escalation of allow to alert.
Decide(matched_policy, anomaly_score) ==
    LET action == IF matched_policy.tag = "Policy" THEN matched_policy.v.action ELSE "block"
        matched_policy_id ==
            IF matched_policy.tag = "Policy" THEN matched_policy.v.policy_id ELSE NoPolicy
    IN  [action |-> IF anomaly_score > Threshold /\ action = "allow" THEN "alert" ELSE action,
         matched_policy_id |-> matched_policy_id]

\* MakeDetail with the two addresses taken from each other's field.
MakeDetailSwapped(connection_id, request, decision, anomaly_score) ==
    [connection_id |-> connection_id,
     source_ip |-> request.destination_ip,
     destination_ip |-> request.source_ip,
     destination_port |-> request.destination_port,
     protocol |-> request.protocol,
     timestamp |-> request.timestamp,
     decision |-> decision.action,
     anomaly_score |-> anomaly_score,
     matched_policy |-> decision.matched_policy_id]

\* MakeDetail with the score rounded as the response rounds it.
MakeDetailRounded(connection_id, request, decision, anomaly_score) ==
    [connection_id |-> connection_id,
     source_ip |-> request.source_ip,
     destination_ip |-> request.destination_ip,
     destination_port |-> request.destination_port,
     protocol |-> request.protocol,
     timestamp |-> request.timestamp,
     decision |-> decision.action,
     anomaly_score |-> Round2(anomaly_score),
     matched_policy |-> decision.matched_policy_id]

\* The ConnectionDetail submit_connection stores.
MakeDetail(connection_id, request, decision, anomaly_score) ==
    [connection_id |-> connection_id,
     source_ip |-> request.source_ip,
     destination_ip |-> request.destination_ip,
     destination_port |-> request.destination_port,
     protocol |-> request.protocol,
     timestamp |-> request.timestamp,
     decision |-> decision.action,
     anomaly_score |-> anomaly_score,
     matched_policy |-> decision.matched_policy_id]

\* The ConnectionResponse submit_connection returns.
MakeResponse(connection_id, decision, anomaly_score) ==
    [kind |-> "ConnectionResponse",
     status |-> 200,
     connection_id |-> connection_id,
     decision |-> decision.action,
     anomaly_score |-> Round2(anomaly_score),
     matched_policy |-> decision.matched_policy_id]

----------------------------------------------------------------------------
(* Inputs.                                                                 *)

\* Longest condition literal spelled out of LiteralAlphabet.
MaxLiteral == 3

\* Characters of the generated literals: digits, the decorations int()
\* accepts (whitespace, sign, underscore) and a letter.
LiteralAlphabet == {"3", "4", "0", " ", "+", "_", "a"}

RECURSIVE TextsUpTo(_)
TextsUpTo(n) ==
    IF n = 0 THEN {<<>>}
    ELSE LET shorter == TextsUpTo(n - 1)
         IN  shorter \cup {t \o <<ch>> : t \in {u \in shorter : Len(u) = n - 1},
                                        ch \in LiteralAlphabet}

Operators == {"==", "!=", ">", "<", ">=", "<="}

Actions == {"allow", "alert", "block"}

Timestamps ==
    {[year |-> 2024, month |-> 1, day |-> 15, hour |-> 10, minute |-> 30, second |-> 0,
      microsecond |-> 0],
     [year |-> 2023, month |-> 12, day |-> 1, hour |-> 9, minute |-> 5, second |-> 7,
      microsecond |-> 5]}

\* ConnectionRequest values: pydantic has validated the types, nothing more
\* (destination_port is any int).
Connections ==
    [source_ip : {<<"1", ".", "1">>},
     destination_ip : {<<"1", ".", "2">>},
     destination_port : {443, 34},
     protocol : {"TCP", "UDP"},
     timestamp : Timestamps]

\* Literals a policy author writes for the non-numeric fields.
NamedLiterals ==
    {<<"T", "C", "P">>, <<"U", "D", "P">>, <<"1", ".", "1">>, <<"1", ".", "2">>,
     <<"4", "4", "3">>}
    \cup {DatetimeStr(d) : d \in Timestamps}

Literals == TextsUpTo(MaxLiteral) \cup NamedLiterals

\* Field paths: the five fields, names that do not resolve, and dotted paths
\* below each type of field.
Fields ==
    {<<"source_ip">>, <<"destination_ip">>, <<"destination_port">>, <<"protocol">>,
     <<"timestamp">>, <<"nonexistent">>, <<"">>,
     <<"protocol", "value">>, <<"source_ip", "upper">>, <<"source_ip", "nonexistent">>,
     <<"destination_port", "real">>, <<"timestamp", "year">>}

\* PolicyCondition values: pydantic has validated that field and value are
\* str and that operator is one of the six.
Conditions == [field : Fields, operator : Operators, value : Literals]

\* Number of connections submitted to the service.
MaxSubmissions == 1

\* Number of policy ids the direct users of the policy store add under.
MaxStoreIds == 3

\* Longest condition list of a policy handed to _matches_policy.
MaxConditions == 2

\* policy_id strings of the clients of the service: the store only compares them.
PolicyIds == {"p1", "p2"}

\* policy_id strings "p1", "p2", ... of the direct users of the policy store.
StoreIds == {"p" \o ToString(i) : i \in 1..MaxStoreIds}

Cond(field, operator, value) == [field |-> field, operator |-> operator, value |-> value]

Port443 == Cond(<<"destination_port">>, "==", <<"4", "4", "3">>)

After2024 == Cond(<<"timestamp">>, ">", <<"2", "0", "2", "4">>)

\* Condition lists and actions the clients post.
PolicyBodies ==
    LET port443 == Port443
        later   == After2024
    IN  {[conditions |-> <<port443>>, action |-> "allow"],
         [conditions |-> <<>>, action |-> "alert"],
         [conditions |-> <<>>, action |-> "block"],
         [conditions |-> <<port443, later>>, action |-> "allow"]}

\* PolicyRequest values.
PolicyRequests ==
    {[policy_id |-> id, conditions |-> b.conditions, action |-> b.action] :
        id \in PolicyIds, b \in PolicyBodies}

\* The connections submitted to the service.
SubmittedConnections ==
    {c \in Connections : c.protocol = "TCP" /\ c.timestamp.year = 2024}

\* Policies the direct users of the store add: two bodies per id.
StorePolicies ==
    {[policy_id |-> id, conditions |-> b.conditions, action |-> b.action] :
        id \in StoreIds,
        b \in {[conditions |-> <<Port443>>, action |-> "allow"],
               [conditions |-> <<>>, action |-> "block"]}}

\* Conditions of the policies handed to _matches_policy: three that test one
\* field each for equality, a timestamp comparison, an unknown field and a
\* port literal that is no integer.
MatchConditions ==
    {Port443,
     Cond(<<"protocol">>, "==", <<"T", "C", "P">>),
     Cond(<<"timestamp">>, "==", DatetimeStr(CHOOSE d \in Timestamps : d.year = 2024)),
     After2024,
     Cond(<<"nonexistent">>, "!=", <<"a">>),
     Cond(<<"destination_port">>, "!=", <<"a">>)}

RECURSIVE ConditionLists(_)
ConditionLists(n) ==
    IF n = 0 THEN {<<>>}
    ELSE LET shorter == ConditionLists(n - 1)
         IN  shorter \cup {l \o <<c>> : l \in {m \in shorter : Len(m) = n - 1},
                                        c \in MatchConditions}

\* connection_id values the clients ask for: the n-th uuid4 string is n; one
\* more than the service can have issued.
ConnectionIds == 1..(MaxSubmissions + 1)

\* Values of anomaly_detector.get_score(), random.random() in thousandths:
\* the threshold itself, one above it that rounds to it, and a high one.
Scores == {800, 804, 950}

----------------------------------------------------------------------------
(* The engine's functions on their own: one call of _evaluate_condition or  *)
(* of _matches_policy on every input.                                      *)

Idle == [op |-> "none"]

NoLedger == [order |-> <<>>, latest |-> <<>>]

ConditionCalls ==
    [op : {"_evaluate_condition"}, connection : Connections, condition : Conditions,
     done : {FALSE}, result : {Ret(FALSE)}]

MatchCalls ==
    [op : {"_matches_policy"}, connection : Connections,
     policy : [policy_id : {"p1"}, conditions : ConditionLists(MaxConditions),
               action : {"allow"}],
     done : {FALSE}, result : {Ret(FALSE)}]

FieldCalls ==
    [op : {"_get_field_value"}, connection : Connections, field : Fields,
     done : {FALSE}, result : {Ret(NoneV)}]

InitEngine ==
    /\ policies = <<>>
    /\ connections = <<>>
    /\ issued = 0
    /\ response = [kind |-> "none"]
    /\ ledger = NoLedger
    /\ call \in ConditionCalls \cup MatchCalls \cup FieldCalls

CallEvaluateCondition ==
    /\ call.op = "_evaluate_condition"
    /\ ~call.done
    /\ call' = [call EXCEPT !.done = TRUE,
                            !.result = EvaluateCondition(call.connection, call.condition)]
    /\ UNCHANGED <<policies, connections, issued, response, ledger>>

CallMatchesPolicy ==
    /\ call.op = "_matches_policy"
    /\ ~call.done
    /\ call' = [call EXCEPT !.done = TRUE,
                            !.result = MatchesPolicy(call.connection, call.policy)]
    /\ UNCHANGED <<policies, connections, issued, response, ledger>>

CallGetFieldValue ==
    /\ call.op = "_get_field_value"
    /\ ~call.done
    /\ call' = [call EXCEPT !.done = TRUE,
                            !.result = Ret(GetFieldValue(call.connection, call.field))]
    /\ UNCHANGED <<policies, connections, issued, response, ledger>>

NextEngine == CallEvaluateCondition \/ CallMatchesPolicy \/ CallGetFieldValue

SpecEngine == InitEngine /\ [][NextEngine]_vars

----------------------------------------------------------------------------
(* The service: the handlers of main.py on the two global stores.          *)

Init ==
    /\ policies = <<>>
    /\ connections = <<>>
    /\ issued = 0
    /\ response = [kind |-> "none"]
    /\ call = Idle
    /\ ledger = NoLedger

\* The ledger after PolicyStore.add: an id that was absent goes last.
LedgerAdd(l, policy) ==
    [order |-> IF policy.policy_id \in DOMAIN l.latest THEN l.order
               ELSE Append(l.order, policy.policy_id),
     latest |-> [id \in DOMAIN l.latest \cup {policy.policy_id} |->
                    IF id = policy.policy_id THEN policy ELSE l.latest[id]]]

\* The ledger after PolicyStore.delete.
LedgerDelete(l, policy_id) ==
    [order |-> SelectSeq(l.order, LAMBDA id : id # policy_id),
     latest |-> [id \in DOMAIN l.latest \ {policy_id} |-> l.latest[id]]]

\* POST /connections
SubmitConnection(request, anomaly_score) ==
    LET connection_id == issued + 1
        matched       == Evaluate(request, policies)
        decision      == Decide(matched.val, anomaly_score)
    IN  /\ issued < MaxSubmissions
        /\ issued' = issued + 1
        /\ call' = [op |-> "evaluate", connection |-> request, score |-> anomaly_score,
                    result |-> matched]
        /\ IF matched.exc # ""
           THEN /\ response' = [kind |-> "error", status |-> 500, exc |-> matched.exc]
                /\ UNCHANGED connections
           ELSE /\ connections' = ConnectionAdd(connections,
                        MakeDetail(connection_id, request, decision, anomaly_score))
                /\ response' = MakeResponse(connection_id, decision, anomaly_score)
        /\ UNCHANGED <<policies, ledger>>

\* POST /policies
CreatePolicy(request) ==
    LET policy == [policy_id |-> request.policy_id, conditions |-> request.conditions,
                   action |-> request.action]
    IN  /\ policies' = StoreAdd(policies, policy)
        /\ ledger' = LedgerAdd(ledger, policy)
        /\ response' = [kind |-> "Policy", status |-> 201, policy |-> policy]
        /\ call' = Idle
        /\ UNCHANGED <<connections, issued>>

\* GET /connections/{connection_id}
GetConnection(connection_id) ==
    LET connection == ConnectionGet(connections, connection_id)
    IN  /\ response' = IF connection.tag = "None"
                       THEN [kind |-> "HTTPException", status |-> 404,
                             connection_id |-> connection_id]
                       ELSE [kind |-> "ConnectionDetail", status |-> 200,
                             connection_id |-> connection_id, detail |-> connection.v]
        /\ call' = Idle
        /\ UNCHANGED <<policies, connections, issued, ledger>>

\* GET /policies
ListPolicies ==
    /\ response' = [kind |-> "policies", status |-> 200, policies |-> StoreGetAll(policies)]
    /\ call' = Idle
    /\ UNCHANGED <<policies, connections, issued, ledger>>

\* DELETE /policies/{policy_id}
DeletePolicy(policy_id) ==
    LET d == StoreDelete(policies, policy_id)
    IN  /\ policies' = d.store
        /\ ledger' = LedgerDelete(ledger, policy_id)
        /\ response' = IF d.deleted THEN [kind |-> "deleted", status |-> 204]
                       ELSE [kind |-> "HTTPException", status |-> 404]
        /\ call' = Idle
        /\ UNCHANGED <<connections, issued>>

Next ==
    \/ \E request \in SubmittedConnections, anomaly_score \in Scores :
            SubmitConnection(request, anomaly_score)
    \/ \E request \in PolicyRequests : CreatePolicy(request)
    \/ \E connection_id \in ConnectionIds : GetConnection(connection_id)
    \/ ListPolicies
    \/ \E policy_id \in PolicyIds : DeletePolicy(policy_id)

Spec == Init /\ [][Next]_vars

----------------------------------------------------------------------------
(* The policy store on its own: the methods of PolicyStore, called in any  *)
(* order, and the handler of DELETE /policies on top of delete.            *)
(* `response` holds what the last call returned.                           *)

\* policy_store.add(policy)
\* add returns None: `response` keeps the argument and whether its id was a key.
AddPolicy(policy) ==
    /\ policies' = StoreAdd(policies, policy)
    /\ ledger' = LedgerAdd(ledger, policy)
    /\ response' = [kind |-> "add", policy |-> policy,
                    existed |-> IndexOf(policies, policy.policy_id) # 0]
    /\ UNCHANGED <<connections, issued, call>>

\* policy_store.get(policy_id)
GetPolicy(policy_id) ==
    /\ response' = [kind |-> "get", policy_id |-> policy_id,
                    value |-> StoreGet(policies, policy_id)]
    /\ UNCHANGED <<policies, connections, issued, call, ledger>>

\* policy_store.get_all()
GetAllPolicies ==
    /\ response' = [kind |-> "get_all", value |-> StoreGetAll(policies)]
    /\ UNCHANGED <<policies, connections, issued, call, ledger>>

\* policy_store.delete(policy_id)
RemovePolicy(policy_id) ==
    LET d == StoreDelete(policies, policy_id)
    IN  /\ policies' = d.store
        /\ ledger' = LedgerDelete(ledger, policy_id)
        /\ response' = [kind |-> "delete", policy_id |-> policy_id, value |-> d.deleted]
        /\ UNCHANGED <<connections, issued, call>>

\* policy_store.clear()
ClearPolicies ==
    /\ policies' = StoreClear(policies)
    /\ ledger' = NoLedger
    /\ response' = [kind |-> "clear"]
    /\ UNCHANGED <<connections, issued, call>>

NextStore ==
    \/ \E policy \in StorePolicies : AddPolicy(policy)
    \/ \E policy_id \in StoreIds : GetPolicy(policy_id)
    \/ GetAllPolicies
    \/ \E policy_id \in StoreIds : RemovePolicy(policy_id)
    \/ \E policy_id \in StoreIds : DeletePolicy(policy_id)
    \/ ClearPolicies

SpecStore == Init /\ [][NextStore]_vars

----------------------------------------------------------------------------
(* One thread in evaluate while other threads create and delete policies:   *)
(* the handlers are plain functions, which the server runs on a pool of     *)
(* threads.  get_all() builds its list in one step of the interpreter, and  *)
(* so do the assignment of add and the del of delete; the loop of           *)
(* evaluate is one step per policy.                                         *)

\* What the loop iterates with the store as it has become meanwhile: the view
\* of the store itself.
IteratedLive(snapshot, store) == store

\* What the loop iterates with the store as it has become meanwhile:
\* list(...) made get_all()'s result a list of its own.
Iterated(snapshot, store) == snapshot

\* evaluate: policy_store.get_all()
EvaluateBegin(connection) ==
    /\ call = Idle
    /\ call' = [op |-> "PolicyEngine.evaluate", connection |-> connection,
                snapshot |-> StoreGetAll(policies), i |-> 1,
                done |-> FALSE, result |-> Ret(NoneV)]
    /\ UNCHANGED <<policies, connections, issued, response, ledger>>

\* evaluate: one turn of `for policy in ...`, or the return None after it.
EvaluateStep ==
    /\ call.op = "PolicyEngine.evaluate"
    /\ ~call.done
    /\ LET all == Iterated(call.snapshot, policies)
       IN  IF call.i > Len(all)
           THEN call' = [call EXCEPT !.done = TRUE, !.result = Ret(NoneV)]
           ELSE LET m == MatchesPolicy(call.connection, all[call.i])
                IN  IF m.exc # ""
                    THEN call' = [call EXCEPT !.done = TRUE, !.result = m]
                    ELSE IF m.val
                    THEN call' = [call EXCEPT !.done = TRUE,
                                              !.result = Ret(PolicyV(all[call.i]))]
                    ELSE call' = [call EXCEPT !.i = call.i + 1]
    /\ UNCHANGED <<policies, connections, issued, response, ledger>>

\* The caller of evaluate has its result; the thread serves the next request.
EvaluateEnd ==
    /\ call.op = "PolicyEngine.evaluate"
    /\ call.done
    /\ call' = Idle
    /\ UNCHANGED <<policies, connections, issued, response, ledger>>

\* create_policy on another thread.
CreatePolicyMeanwhile(request) ==
    LET policy == [policy_id |-> request.policy_id, conditions |-> request.conditions,
                   action |-> request.action]
    IN  /\ policies' = StoreAdd(policies, policy)
        /\ ledger' = LedgerAdd(ledger, policy)
        /\ response' = [kind |-> "Policy", status |-> 201, policy |-> policy]
        /\ UNCHANGED <<connections, issued, call>>

\* delete_policy on another thread.
DeletePolicyMeanwhile(policy_id) ==
    LET d == StoreDelete(policies, policy_id)
    IN  /\ policies' = d.store
        /\ ledger' = LedgerDelete(ledger, policy_id)
        /\ response' = IF d.deleted THEN [kind |-> "deleted", status |-> 204]
                       ELSE [kind |-> "HTTPException", status |-> 404]
        /\ UNCHANGED <<connections, issued, call>>

NextThreads ==
    \/ \E connection \in SubmittedConnections : EvaluateBegin(connection)
    \/ EvaluateStep
    \/ EvaluateEnd
    \/ \E request \in PolicyRequests : CreatePolicyMeanwhile(request)
    \/ \E policy_id \in PolicyIds : DeletePolicyMeanwhile(policy_id)

SpecThreads == Init /\ [][NextThreads]_vars

----------------------------------------------------------------------------
(* Properties of _evaluate_condition (SpecEngine).                           *)

CondDone == call.op = "_evaluate_condition" /\ call.done

\* The field path of the call does not resolve on its connection.
CondUnresolved ==
    Resolve(ModelV(call.connection), call.condition.field).exc = "AttributeError"

\* The call is on destination_port with a literal int() rejects.
CondBadPortLiteral ==
    /\ call.condition.field = <<"destination_port">>
    /\ ~ParseInt(call.condition.value).ok

\* C5: a condition whose field path does not resolve, and a condition on
\* destination_port whose literal is no integer, evaluate to False under
\* every operator, != included.
C5_FailClosed ==
    CondDone /\ (CondUnresolved \/ CondBadPortLiteral) => Returned(call.result, FALSE)

\* Port 443 tested with != against a literal that is no integer: False.
C5_Witness ==
    /\ CondDone
    /\ CondBadPortLiteral
    /\ call.condition.operator = "!="
    /\ call.condition.value = <<"a">>
    /\ Returned(call.result, FALSE)

\* The text of the actual value and of the expected value of the call, the
\* expected value of a destination_port condition being the parsed integer.
ActualText == PyStr(GetFieldValue(call.connection, call.condition.field))

ExpectedText ==
    IF call.condition.field = <<"destination_port">>
    THEN IntStr(ParseInt(call.condition.value).n)
    ELSE call.condition.value

\* C6: when the field resolves (and a destination_port literal parses), ==
\* is True exactly when the two texts are equal and != is True exactly when
\* they differ.
C6_EqualsByText ==
    CondDone /\ ~CondUnresolved /\ ~CondBadPortLiteral =>
        /\ call.condition.operator = "==" => Returned(call.result, ActualText = ExpectedText)
        /\ call.condition.operator = "!=" => Returned(call.result, ActualText # ExpectedText)

\* The timestamp tested with != against the literal that spells it: False.
C6_Witness ==
    /\ CondDone
    /\ call.condition.field = <<"timestamp">>
    /\ call.condition.operator = "!="
    /\ call.condition.value = DatetimeStr(call.connection.timestamp)
    /\ Returned(call.result, FALSE)

\* C7: _evaluate_condition returns a boolean and never raises, for every
\* connection and every condition.
C7_NeverRaises ==
    CondDone => call.result.exc = "" /\ call.result.val \in BOOLEAN

----------------------------------------------------------------------------
(* Properties of _matches_policy (SpecEngine).                             *)

MatchDone == call.op = "_matches_policy" /\ call.done

\* Every condition of the policy evaluates to True on the connection.
AllHold(connection, policy) ==
    \A i \in 1..Len(policy.conditions) :
        Returned(EvaluateCondition(connection, policy.conditions[i]), TRUE)

\* The policy tests the single-segment field f for equality.
TestsEqual(policy, f) ==
    \E i \in 1..Len(policy.conditions) :
        policy.conditions[i].field = <<f>> /\ policy.conditions[i].operator = "=="

\* C4: _matches_policy returns True exactly when every condition of the
\* policy evaluates to True, so a policy without conditions matches every
\* connection, and a connection that differs from a matching one in a field
\* the policy tests for equality does not match.
C4_MatchIsConjunction ==
    MatchDone =>
        /\ Returned(call.result, TRUE) <=> AllHold(call.connection, call.policy)
        /\ call.policy.conditions = <<>> => Returned(call.result, TRUE)
        /\ Returned(call.result, TRUE) =>
              \A other \in Connections, f \in {"destination_port", "protocol", "timestamp"} :
                  TestsEqual(call.policy, f) /\ other[f] # call.connection[f]
                      => ~Returned(MatchesPolicy(other, call.policy), TRUE)

\* A policy of two conditions matched: both hold.
C4_Witness ==
    /\ MatchDone
    /\ Len(call.policy.conditions) = 2
    /\ call.policy.conditions[1] # call.policy.conditions[2]
    /\ Returned(call.result, TRUE)

----------------------------------------------------------------------------
(* Properties of the service (Spec).                                       *)

\* The last handler was submit_connection: `call` is its call of evaluate.
Submitted == call.op = "evaluate"

\* submit_connection returned its ConnectionResponse.
Decided == Submitted /\ response.kind = "ConnectionResponse"

\* Indices of the stored policies whose conditions all hold on the connection.
FullMatches(connection) ==
    {i \in 1..Len(policies) : AllHold(connection, policies[i])}

Lowest(S) == CHOOSE i \in S : \A j \in S : i <= j

\* C1: evaluate returns the lowest-index policy of the store whose
\* conditions all evaluate true, and None when there is no such policy.
C1_FirstFullMatch ==
    Submitted =>
        LET hits == FullMatches(call.connection)
        IN  /\ call.result.exc = ""
            /\ IF hits = {} THEN call.result.val.tag = "None"
               ELSE /\ call.result.val.tag = "Policy"
                    /\ call.result.val.v = policies[Lowest(hits)]

\* No stored policy matches the submitted connection: _matches_policy
\* returned False for each.
NoPolicyMatches ==
    \A i \in 1..Len(policies) : Returned(MatchesPolicy(call.connection, policies[i]), FALSE)

\* C2: when no policy matches the submitted connection, the decision is
\* block and the matched policy is None, in the response and in the stored
\* record, whatever the anomaly score.
C2_DefaultBlock ==
    Submitted /\ NoPolicyMatches =>
        /\ response.kind = "ConnectionResponse"
        /\ response.decision = "block"
        /\ response.matched_policy = NoPolicy
        /\ response.connection_id \in DOMAIN connections
        /\ connections[response.connection_id].decision = "block"
        /\ connections[response.connection_id].matched_policy = NoPolicy

\* A store that holds a policy, none matching, and a score above 0.8: block.
C2_Witness ==
    /\ Submitted
    /\ NoPolicyMatches
    /\ policies # <<>>
    /\ call.score > Threshold
    /\ response.kind = "ConnectionResponse"
    /\ response.decision = "block"

\* The action before the escalation: the matched policy's, or block.
BaseAction ==
    IF call.result.val.tag = "Policy" THEN call.result.val.v.action ELSE "block"

\* C3: the final action differs from the base action exactly when the base
\* action is allow and the score is above 0.8, and it is then alert.
C3_OnlyEscalation ==
    Decided =>
        /\ response.decision # BaseAction <=> (BaseAction = "allow" /\ call.score > Threshold)
        /\ response.decision # BaseAction => response.decision = "alert"
        /\ connections[response.connection_id].decision = response.decision

\* A score of exactly 0.8 on an allow policy: allow.
C3_Witness ==
    /\ Decided
    /\ BaseAction = "allow"
    /\ call.score = Threshold
    /\ response.decision = "allow"

\* C8: every submit_connection reaches a decision in {allow, alert, block}
\* and stores its record, whatever policies the store holds.
C8_AlwaysDecides ==
    Submitted =>
        /\ response.kind = "ConnectionResponse"
        /\ response.decision \in Actions
        /\ response.connection_id \in DOMAIN connections

\* C9 as claimed: the stored anomaly_score and the returned anomaly_score
\* both equal the score compared against the threshold.
C9_ScoreUnmodified ==
    Decided =>
        /\ connections[response.connection_id].anomaly_score = call.score
        /\ response.anomaly_score = call.score

\* C9 as amended: the stored anomaly_score equals the score compared against
\* the threshold; the returned one is that score rounded to two decimals, a
\* whole number of hundredths at most 0.005 away from it.
C9_StoredExactReturnedRounded ==
    Decided =>
        /\ connections[response.connection_id].anomaly_score = call.score
        /\ response.anomaly_score % 10 = 0
        /\ response.anomaly_score - call.score \in -5..5

\* Score 0.804 escalates an allow to alert, is stored as 0.804 and returned as 0.8.
C9_Witness ==
    /\ Decided
    /\ call.score = 804
    /\ response.decision = "alert"
    /\ connections[response.connection_id].anomaly_score = 804
    /\ response.anomaly_score = 800

----------------------------------------------------------------------------
(* Properties of the policy store (SpecStore).                             *)

\* The policies added and not since deleted or cleared, each in its last
\* version, in the order in which their ids were inserted.
LedgerPolicies == [i \in 1..Len(ledger.order) |-> ledger.latest[ledger.order[i]]]

\* C10: get_all returns the policies added and not since deleted or cleared,
\* each id once, in the order of insertion of the ids, and evaluate returns
\* the first policy in that order that matches.
C10_InsertionOrder ==
    /\ StoreGetAll(policies) = LedgerPolicies
    /\ response.kind = "get_all" => response.value = LedgerPolicies
    /\ \A i, j \in 1..Len(policies) :
            policies[i].policy_id = policies[j].policy_id => i = j
    /\ \A c \in SubmittedConnections :
            LET r == Evaluate(c, policies)
            IN  r.exc = "" /\ r.val.tag = "Policy" =>
                    \E i \in 1..Len(ledger.order) :
                        /\ r.val.v = ledger.latest[ledger.order[i]]
                        /\ AllHold(c, r.val.v)
                        /\ \A j \in 1..(i - 1) : ~AllHold(c, ledger.latest[ledger.order[j]])

\* get_all returned three policies, the lowest id last and in its second version.
C10_Witness ==
    /\ response.kind = "get_all"
    /\ Len(response.value) = 3
    /\ response.value[3].policy_id = "p1"
    /\ response.value[3].action = "block"
    /\ response.value[1].policy_id = "p3"

\* The ids of a list of policies, in order.
IdsOf(store) == [i \in 1..Len(store) |-> store[i].policy_id]

HasId(store, policy_id) == \E i \in 1..Len(store) : store[i].policy_id = policy_id

\* C11: add with a policy_id that is present replaces that policy where it
\* stands: the number of policies and the order of the ids stay, the policy
\* at the id's position is the new one, every other policy is untouched.
C11_UpdateInPlace ==
    [][\A policy \in StorePolicies :
            response'.kind = "add" /\ AddPolicy(policy) /\ HasId(policies, policy.policy_id) =>
                /\ Len(policies') = Len(policies)
                /\ IdsOf(StoreGetAll(policies')) = IdsOf(StoreGetAll(policies))
                /\ \A i \in 1..Len(policies) :
                      policies'[i] = IF policies[i].policy_id = policy.policy_id
                                     THEN policy ELSE policies[i]]_vars

\* An add replaced the first of three policies, which is still the first.
C11_Witness ==
    /\ response.kind = "add"
    /\ response.existed
    /\ Len(policies) = 3
    /\ policies[1] = response.policy
    /\ policies[1].action = "block"

\* The list without the policy of that id, the others in their order.
Without(store, policy_id) == SelectSeq(store, LAMBDA p : p.policy_id # policy_id)

\* C12: delete returns True exactly when the id was present (the handler
\* answers 204 then, 404 otherwise); afterwards get returns None for the id
\* and the other policies keep their order; deleting an absent id leaves the
\* store as it was.
C12_Delete ==
    [][\A policy_id \in StoreIds :
            LET present == HasId(policies, policy_id)
                removed == response'.kind = "delete" /\ RemovePolicy(policy_id)
                deleted == response'.kind \in {"deleted", "HTTPException"}
                           /\ DeletePolicy(policy_id)
            IN  /\ removed => response'.value = present
                /\ deleted => response'.status = IF present THEN 204 ELSE 404
                /\ removed \/ deleted =>
                      /\ StoreGet(policies', policy_id).tag = "None"
                      /\ StoreGetAll(policies') = Without(policies, policy_id)
                      /\ ~present => policies' = policies]_vars

\* delete took the middle one of three policies and returned True.
C12_Witness ==
    /\ response.kind = "delete"
    /\ response.policy_id = "p2"
    /\ response.value
    /\ IdsOf(policies) = <<"p1", "p3">>

----------------------------------------------------------------------------
(* Properties of the connection records (Spec).                            *)

RequestFields == {"source_ip", "destination_ip", "destination_port", "protocol", "timestamp"}

C18_RecordsConsistent ==
    \A id \in DOMAIN connections :
        LET d == connections[id]
        IN  /\ d.matched_policy = NoPolicy => d.decision = "block"
            /\ d.decision = "allow" =>
                  d.matched_policy # NoPolicy /\ d.anomaly_score <= Threshold

\* A record allowed at a score of exactly 0.8, its policy no longer stored.
C18_Witness ==
    \E id \in DOMAIN connections :
        /\ connections[id].decision = "allow"
        /\ connections[id].anomaly_score = Threshold
        /\ policies = <<>>
        /\ response.kind = "deleted"

----------------------------------------------------------------------------
(* Properties of the ordering operators (SpecEngine).                      *)

Port == call.connection.destination_port

PortLiteral == ParseInt(call.condition.value)

\* The call is on destination_port with a literal int() accepts.
CondPortParsed ==
    /\ CondDone
    /\ call.condition.field = <<"destination_port">>
    /\ PortLiteral.ok

\* C14: on destination_port with a literal int() accepts, > < >= <= return
\* the comparison of the port and the parsed literal as integers.
C14_PortOrderIsNumeric ==
    CondPortParsed =>
        LET op == call.condition.operator
        IN  /\ op = ">" => Returned(call.result, Port > PortLiteral.n)
            /\ op = "<" => Returned(call.result, Port < PortLiteral.n)
            /\ op = ">=" => Returned(call.result, Port >= PortLiteral.n)
            /\ op = "<=" => Returned(call.result, Port <= PortLiteral.n)

\* Port 34 is greater than the literal "4", whose text follows "34".
C14_Witness ==
    /\ CondPortParsed
    /\ Port = 34
    /\ call.condition.value = <<"4">>
    /\ call.condition.operator = ">"
    /\ StrLess(IntStr(Port), call.condition.value)
    /\ Returned(call.result, TRUE)

\* The fields of a date-time, most significant first.
DatetimeKey(d) == <<d.year, d.month, d.day, d.hour, d.minute, d.second, d.microsecond>>

\* a is earlier than b.
RECURSIVE KeyLess(_, _)
KeyLess(a, b) ==
    IF a = <<>> THEN FALSE
    ELSE IF Head(a) # Head(b) THEN Head(a) < Head(b)
    ELSE KeyLess(Tail(a), Tail(b))

Earlier(a, b) == KeyLess(DatetimeKey(a), DatetimeKey(b))

\* C15: on timestamp with a literal that spells a date-time, > < >= <=
\* return the chronological comparison of the connection's timestamp and
\* that date-time.
C15_TimestampOrderIsChronological ==
    \A d \in Timestamps :
        (/\ CondDone
         /\ call.condition.field = <<"timestamp">>
         /\ call.condition.value = DatetimeStr(d)) =>
            LET op == call.condition.operator
                t  == call.connection.timestamp
            IN  /\ op = ">" => Returned(call.result, Earlier(d, t))
                /\ op = "<" => Returned(call.result, Earlier(t, d))
                /\ op = ">=" => Returned(call.result, ~Earlier(t, d))
                /\ op = "<=" => Returned(call.result, ~Earlier(d, t))

----------------------------------------------------------------------------
(* Properties of _get_field_value (SpecEngine).                            *)

FieldDone == call.op = "_get_field_value" /\ call.done

\* The fields of the record whose values are a string or an integer.
NonComposite == {"source_ip", "destination_ip", "destination_port"}

\* The value of a record field as a single-segment path yields it.
RecordValue(connection, name) ==
    CASE name \in {"source_ip", "destination_ip"} -> StrV(connection[name])
      [] name = "destination_port" -> IntV(connection[name])
      [] name = "protocol" -> StrV(ProtocolValue(connection[name]))
      [] name = "timestamp" -> DatetimeV(connection[name])

\* C16: _get_field_value yields None for every unknown field name and for
\* every path below a string or integer field; for the five fields as
\* single-segment paths it yields the record's value, protocol as its string.
C16_FieldValue ==
    FieldDone =>
        LET first == call.field[1]
            value == call.result.val
        IN  /\ call.result.exc = ""
            /\ first \notin RequestFields => value.tag = "None"
            /\ first \in NonComposite /\ Len(call.field) > 1 => value.tag = "None"
            /\ first \in RequestFields /\ Len(call.field) = 1 =>
                  value = RecordValue(call.connection, first)

----------------------------------------------------------------------------
(* Properties of evaluate among concurrent mutations (SpecThreads).        *)

Evaluating == call.op = "PolicyEngine.evaluate"

\* C17: the list evaluate iterates is the store's content at the instant of
\* its get_all() and stays that list while policies are created and
\* deleted; what evaluate returns, or raises, is what the first-match rule
\* gives on that list, so no mutation makes it fail.
C17_ConsistentView ==
    /\ [](Evaluating /\ call.done =>
            /\ call.result = FirstMatch(call.connection, call.snapshot)
            /\ FirstMatch(call.connection, call.snapshot).exc = "" =>
                  call.result.exc = "")
    /\ [][/\ ~Evaluating /\ Evaluating' => call'.snapshot = policies
          /\ Evaluating /\ Evaluating' => call'.snapshot = call.snapshot]_vars

\* evaluate has returned the policy that was first at its get_all(); since
\* then the policy has been deleted and another one would match now.
C17_Witness ==
    /\ Evaluating
    /\ call.done
    /\ call.result.exc = ""
    /\ call.result.val.tag = "Policy"
    /\ ~HasId(policies, call.result.val.v.policy_id)
    /\ FirstMatch(call.connection, policies).exc = ""
    /\ FirstMatch(call.connection, policies).val.tag = "Policy"

====
